---- MODULE Spec2Model ----
(***************************************************************************)
(* StratifiedSampling (eesampling/model.py): the orchestrator object, its  *)
(* public operations add_column, fit, sample and fit_and_sample, and the   *)
(* auto-binning loop of fit_and_sample, one loop iteration per step.       *)
(*                                                                         *)
(* Within one fit_and_sample call the tables, n_samples_approx, the seed   *)
(* and the relax flag are fixed, so what sample_bins and Diagnostics       *)
(* answer is a function of the bin counts the Binning was fitted with.     *)
(* That function is the variable oracle: an entry is chosen freely the     *)
(* first time the call fits a bin-count vector and is kept while the call  *)
(* can fit that vector again. Separate calls may pass any tables; the      *)
(* tables given to fit_and_sample hold every registered column.            *)
(*                                                                         *)
(* Spec is the object under any sequence of calls. SpecRerun repeats       *)
(* fit_and_sample on the same tables, the answers being kept from call to  *)
(* call. SpecRows and SpecSeeded follow the rows of a table through        *)
(* _chop_outliers and _perturb in fit and sample, numpy's global generator *)
(* being part of the state.                                                *)
(***************************************************************************)
EXTENDS Integers, Sequences, FiniteSets, TLC

\* ------------------------------------------------------------------ bounds
DistinctValues == 3   \* distinct values each covariate takes in the train table
MaxRatio == 2         \* the sampled/train ratio takes the values 0..MaxRatio

Names == {"a", "b"}

\* Python's None and a present value x.
None == <<>>
Some(x) == <<x>>

\* Python truthiness of an optional number: None and 0 are falsy.
Truthy(x) == x # None /\ x[1] # 0

\* arguments the operations are called with
NBinsArgs == {None, Some(2)}
RatioFloors == {None, Some(0), Some(2)}

VARIABLES
  self,     \* the StratifiedSampling object's attributes
  oracle,   \* what the collaborators answer, by what they are given
  pc,       \* "idle", or the position of the running fit_and_sample call
  idx,      \* fit_and_sample: position in columns.items() of the covariate being tuned
  entry,    \* fit_and_sample: the bin count that covariate entered its loop with
  first,    \* the bin counts an earlier fit_and_sample call returned with (re-run study)
  rng,      \* state of numpy's global random generator (row-level study)
  args,     \* the table and the latest sample arguments (row-level study)
  floor,    \* fit_and_sample: argument min_n_sampled_to_n_train_ratio
  op,       \* the operation the last step belongs to
  err,      \* the exception the last step raised, "none" if it raised nothing
  trace     \* what the last loop iteration consulted, in order

vars == <<self, oracle, pc, idx, entry, first, rng, args, floor, op, err, trace>>

\* --------------------------------------------------------------- the object

\* __init__: no column, nothing trained or sampled. binning, predicted and
\* col_names are first set by add_column; col_names is the key order of columns.
InitSelf ==
  [ columns     |-> <<>>,
    col_names   |-> <<>>,
    binning     |-> None,
    df_train    |-> None,
    trained     |-> FALSE,
    sampled     |-> FALSE,
    predicted   |-> FALSE,
    data_train  |-> None,
    data_test   |-> None,
    data_sample |-> None ]

InSeq(x, seq) == \E i \in 1..Len(seq) : seq[i] = x

\* add_column: the dict entry is replaced (a new key goes last), and the
\* model is marked untrained; sampled and the data_* attributes are not touched.
AddColumn(s, name, n_bins, require_equivalence) ==
  LET col == [ name |-> name,
               auto_bin |-> (n_bins = None),
               n_bins |-> IF n_bins = None THEN 1 ELSE n_bins[1],
               auto_bin_require_equivalence |-> require_equivalence ]
      cols == [ c \in (DOMAIN s.columns) \cup {name} |->
                  IF c = name THEN col ELSE s.columns[c] ]
  IN [ s EXCEPT !.columns = cols,
                !.col_names = IF InSeq(name, s.col_names) THEN s.col_names
                              ELSE Append(s.col_names, name),
                !.binning = None,
                !.trained = FALSE,
                !.predicted = FALSE ]

get_n_bins(s, col_name) == s.columns[col_name].n_bins

\* set_n_bins writing the count into every auto-binned covariate.
set_n_bins_EveryAuto(s, col_name, n_bins) ==
  [ s EXCEPT !.columns = [ c \in DOMAIN s.columns |->
      IF s.columns[c].auto_bin THEN [ s.columns[c] EXCEPT !.n_bins = n_bins ]
      ELSE s.columns[c] ] ]

set_n_bins(s, col_name, n_bins) ==
  [ s EXCEPT !.columns[col_name].n_bins = n_bins ]

\* The bin counts of all registered covariates.
NBins(s) == [ c \in DOMAIN s.columns |-> s.columns[c].n_bins ]

\* ------------------------------------------------------- the collaborators

\* The covariates whose tuning consults the equivalence predicate.
RequiresEquivalence(s) ==
  { c \in DOMAIN s.columns :
      s.columns[c].auto_bin /\ s.columns[c].auto_bin_require_equivalence }

\* sample_bins and Diagnostics on the model fitted with the current bin
\* counts: whether sample_bins raises, the sampled/train ratio of the drawn
\* sample (0: the sample is empty), and the covariates, among those that
\* require it, on which the sample is equivalent to the train data.
Outcomes(s) ==
  { [ sample_error |-> TRUE, ratio |-> 0, equivalent |-> {} ] }
  \cup { [ sample_error |-> FALSE, ratio |-> r, equivalent |-> e ] :
      r \in 0..MaxRatio, e \in SUBSET RequiresEquivalence(s) }

\* o is what the collaborators answer for the bin counts v during the running
\* call: the answer already given for v, or any.
Answers(s, v, o) == o \in Outcomes(s) /\ (v \in DOMAIN oracle => o = oracle[v])

\* Two bin-count vectors that differ by at most one bin in one covariate.
Near(u, v) ==
  /\ DOMAIN u = DOMAIN v
  /\ Cardinality({ c \in DOMAIN v : u[c] # v[c] }) <= 1
  /\ \A c \in DOMAIN v : u[c] - v[c] \in {-1, 0, 1}

\* The answer for v is kept. The loop moves one covariate by one bin at a
\* time and never returns to a vector further away, so older answers are dropped.
Learn(v, o) ==
  [ u \in { w \in DOMAIN oracle : Near(w, v) } \cup {v} |->
      IF u = v THEN o ELSE oracle[u] ]

\* Binning.bin raises when fewer than one bin is asked for, and when the
\* column holds fewer distinct values than bins asked for.
BinnerRejects(n_bins) == n_bins < 1 \/ n_bins > DistinctValues

\* Diagnostics(model=self) on the sample just drawn.
equivalence_passed(o, name) == name \in o.equivalent

n_sampled_to_n_train_ratio(o) == o.ratio

\* self.data_sample.df.empty
SampleEmpty(o) == o.ratio = 0

\* ------------------------------------------------------------ fit, sample

\* _check_columns_present: getattr(self, "col_names") raises when add_column
\* never ran; otherwise the table must hold every registered column.
CheckColumnsPresent(s, has_columns) ==
  IF s.col_names = <<>> THEN "AttributeError"
  ELSE IF ~has_columns THEN "ValueError: data is missing required columns"
  ELSE "none"

\* A BinnedData keeps the Binning object it was built with; of_last_fit says
\* that object is the one the most recent fit created (self.binning is that
\* object, or None after add_column).
Superseded(data) ==
  IF data = None THEN None ELSE Some([ data[1] EXCEPT !.of_last_fit = FALSE ])

\* Position in col_names of the first covariate whose binning raises, 0 if none.
FirstBinError(s) ==
  LET bad == { i \in 1..Len(s.col_names) :
                 BinnerRejects(s.columns[s.col_names[i]].n_bins) }
  IN IF bad = {} THEN 0 ELSE CHOOSE i \in bad : \A j \in bad : i <= j

\* fit: df_train and a new Binning are stored first, the covariates are binned
\* in order, and only then data_train and trained are set; data_test,
\* data_sample and sampled are not touched.
Fit(s, has_columns) ==
  LET chk == CheckColumnsPresent(s, has_columns)
      k == FirstBinError(s)
      s1 == [ s EXCEPT !.df_train = Some("train"),
                       !.data_train = Superseded(s.data_train),
                       !.data_test = Superseded(s.data_test),
                       !.data_sample = Superseded(s.data_sample) ]
  IN IF chk # "none" THEN [ s |-> s, err |-> chk ]
     ELSE IF k > 0 THEN
       [ s |-> [ s1 EXCEPT !.binning = Some([ edges |->
                   [ c \in { s.col_names[i] : i \in 1..(k - 1) } |-> s.columns[c].n_bins ] ]) ],
         err |-> "BinningError" ]
     ELSE
       [ s |-> [ s1 EXCEPT !.binning = Some([ edges |-> NBins(s) ]),
                           !.data_train = Some([ of_last_fit |-> TRUE ]),
                           !.trained = TRUE ],
         err |-> "none" ]

\* sample as it would be if drawing a sample discarded the fitted model.
Sample_DropsModel(s, has_columns, o) ==
  LET chk == CheckColumnsPresent(s, has_columns)
      s1 == [ s EXCEPT !.data_test = Some([ of_last_fit |-> TRUE ]) ]
  IN IF ~s.trained THEN [ s |-> s, err |-> "NameError" ]
     ELSE IF chk # "none" THEN [ s |-> s, err |-> chk ]
     ELSE IF o.sample_error THEN [ s |-> s1, err |-> "ModelSamplingException" ]
     ELSE
       [ s |-> [ s1 EXCEPT !.data_sample = Some([ of_last_fit |-> TRUE ]),
                           !.sampled = TRUE,
                           !.binning = None,
                           !.trained = FALSE ],
         err |-> "none" ]

\* sample: the guard reads the undefined name data_train when trained is false.
\* data_test is stored before sample_bins runs; data_sample and sampled after.
\* Both are built with self.binning, which, trained being true, is the Binning
\* of the most recent fit.
Sample(s, has_columns, o) ==
  LET chk == CheckColumnsPresent(s, has_columns)
      s1 == [ s EXCEPT !.data_test = Some([ of_last_fit |-> TRUE ]) ]
  IN IF ~s.trained THEN [ s |-> s, err |-> "NameError" ]
     ELSE IF chk # "none" THEN [ s |-> s, err |-> chk ]
     ELSE IF o.sample_error THEN [ s |-> s1, err |-> "ModelSamplingException" ]
     ELSE
       [ s |-> [ s1 EXCEPT !.data_sample = Some([ of_last_fit |-> TRUE ]),
                           !.sampled = TRUE ],
         err |-> "none" ]

\* ---------------------------------------------------------- fit_and_sample

\* _violates_ratio (called only when the floor is truthy)
violates_ratio(o, min_ratio) == n_sampled_to_n_train_ratio(o) < min_ratio[1]

\* The covariate requires equivalence, with the ratio floor consulted only
\* when equivalence failed.
RequireEquivalence_FloorOnlyOnFailure(s, name, min_ratio, o) ==
  IF SampleEmpty(o)
  THEN [ s |-> s, completed |-> FALSE, trace |-> <<"empty">>,
         err |-> "ValueError: Too many bin divisions before finding equivalence" ]
  ELSE LET passed == equivalence_passed(o, name)
           violated == ~passed /\ Truthy(min_ratio) /\ violates_ratio(o, min_ratio)
           s1 == IF violated THEN set_n_bins(s, name, get_n_bins(s, name) - 1) ELSE s
           s2 == IF ~(passed \/ violated) THEN set_n_bins(s1, name, get_n_bins(s1, name) + 1)
                 ELSE s1
       IN [ s |-> s2, completed |-> passed \/ violated, err |-> "none",
            trace |-> <<"empty", "equivalence">> \o
                      (IF ~passed /\ Truthy(min_ratio) THEN <<"ratio">> ELSE <<>>) ]

\* The covariate requires equivalence, with the empty-sample check made after
\* the equivalence predicate and only when it failed.
RequireEquivalence_EmptyCheckedLate(s, name, min_ratio, o) ==
  LET passed == equivalence_passed(o, name)
      violated == Truthy(min_ratio) /\ violates_ratio(o, min_ratio)
      completed == passed \/ violated
      s1 == IF violated THEN set_n_bins(s, name, get_n_bins(s, name) - 1) ELSE s
      s2 == IF ~completed THEN set_n_bins(s1, name, get_n_bins(s1, name) + 1) ELSE s1
  IN IF ~passed /\ SampleEmpty(o)
     THEN [ s |-> s, completed |-> FALSE, trace |-> <<"equivalence", "empty">>,
            err |-> "ValueError: Too many bin divisions before finding equivalence" ]
     ELSE [ s |-> s2, completed |-> completed, err |-> "none",
            trace |-> <<"equivalence">> \o
                      (IF Truthy(min_ratio) THEN <<"ratio">> ELSE <<>>) ]

\* The branch as it would be if the fallback went back two bin counts.
RequireEquivalence_FallsTwo(s, name, min_ratio, o) ==
  IF SampleEmpty(o)
  THEN [ s |-> s, completed |-> FALSE, trace |-> <<"empty">>,
         err |-> "ValueError: Too many bin divisions before finding equivalence" ]
  ELSE LET passed == equivalence_passed(o, name)
           violated == Truthy(min_ratio) /\ violates_ratio(o, min_ratio)
           completed == passed \/ violated
           s1 == IF violated THEN set_n_bins(s, name, get_n_bins(s, name) - 2) ELSE s
           s2 == IF ~completed THEN set_n_bins(s1, name, get_n_bins(s1, name) + 1) ELSE s1
       IN [ s |-> s2, completed |-> completed, err |-> "none",
            trace |-> <<"empty", "equivalence">>
                        \o (IF Truthy(min_ratio) THEN <<"ratio">> ELSE <<>>) ]

\* Lines 166-178, the covariate requires equivalence: the empty-sample check,
\* then the equivalence predicate, then the ratio floor, which overrides it.
RequireEquivalence(s, name, min_ratio, o) ==
  IF SampleEmpty(o)
  THEN [ s |-> s, completed |-> FALSE, trace |-> <<"empty">>,
         err |-> "ValueError: Too many bin divisions before finding equivalence" ]
  ELSE LET passed == equivalence_passed(o, name)
           violated == Truthy(min_ratio) /\ violates_ratio(o, min_ratio)
           completed == passed \/ violated
           s1 == IF violated THEN set_n_bins(s, name, get_n_bins(s, name) - 1) ELSE s
           s2 == IF ~completed THEN set_n_bins(s1, name, get_n_bins(s1, name) + 1) ELSE s1
       IN [ s |-> s2, completed |-> completed, err |-> "none",
            trace |-> <<"empty", "equivalence">> \o
                      (IF Truthy(min_ratio) THEN <<"ratio">> ELSE <<>>) ]

\* The covariate does not require equivalence, yet is handled as if it did.
NoEquivalence_AsRequired(s, name, min_ratio, o) ==
  RequireEquivalence(s, name, min_ratio, o)

\* The branch as it would be with a cap on the number of bins tried.
NoEquivalence_Capped(s, name, min_ratio, o) ==
  IF (Truthy(min_ratio) /\ violates_ratio(o, min_ratio)) \/ get_n_bins(s, name) >= 2
  THEN [ s |-> set_n_bins(s, name, get_n_bins(s, name) - 1),
         completed |-> TRUE, err |-> "none", trace |-> <<"ratio">> ]
  ELSE [ s |-> set_n_bins(s, name, get_n_bins(s, name) + 1),
         completed |-> FALSE, err |-> "none",
         trace |-> IF Truthy(min_ratio) THEN <<"ratio">> ELSE <<>> ]

\* Lines 179-184, the covariate does not require equivalence.
NoEquivalence(s, name, min_ratio, o) ==
  IF Truthy(min_ratio) /\ violates_ratio(o, min_ratio)
  THEN [ s |-> set_n_bins(s, name, get_n_bins(s, name) - 1), completed |-> TRUE,
         err |-> "none", trace |-> <<"ratio">> ]
  ELSE [ s |-> set_n_bins(s, name, get_n_bins(s, name) + 1), completed |-> FALSE,
         err |-> "none",
         trace |-> IF Truthy(min_ratio) THEN <<"ratio">> ELSE <<>> ]

\* One pass of the while loop that, when it raises, puts the covariate back
\* to the single bin auto-binning starts from.
TuneIteration_ResetOnError(s, name, min_ratio, o) ==
  LET fitted == Fit(s, TRUE)
      sampled == Sample(fitted.s, TRUE, o)
      r == IF fitted.err # "none"
           THEN [ s |-> fitted.s, completed |-> FALSE, err |-> fitted.err, trace |-> <<>> ]
           ELSE IF sampled.err # "none"
           THEN [ s |-> sampled.s, completed |-> FALSE, err |-> sampled.err, trace |-> <<>> ]
           ELSE IF s.columns[name].auto_bin_require_equivalence
           THEN RequireEquivalence(sampled.s, name, min_ratio, o)
           ELSE NoEquivalence(sampled.s, name, min_ratio, o)
  IN IF r.err # "none" THEN [ r EXCEPT !.s = set_n_bins(r.s, name, 1) ] ELSE r

\* One pass of the while loop (lines 140-184) for the covariate name: fit,
\* sample, then the stopping conditions. An exception of fit or sample ends it.
TuneIteration(s, name, min_ratio, o) ==
  LET fitted == Fit(s, TRUE)
      sampled == Sample(fitted.s, TRUE, o)
  IN IF fitted.err # "none"
     THEN [ s |-> fitted.s, completed |-> FALSE, err |-> fitted.err, trace |-> <<>> ]
     ELSE IF sampled.err # "none"
     THEN [ s |-> sampled.s, completed |-> FALSE, err |-> sampled.err, trace |-> <<>> ]
     ELSE IF s.columns[name].auto_bin_require_equivalence
     THEN RequireEquivalence(sampled.s, name, min_ratio, o)
     ELSE NoEquivalence(sampled.s, name, min_ratio, o)

\* The final fit and sample (lines 186-196).
FinalFitSample(s, o) ==
  LET fitted == Fit(s, TRUE)
      sampled == Sample(fitted.s, TRUE, o)
  IN IF fitted.err # "none" THEN fitted ELSE sampled

\* for name, col in self.columns.items(): if col["auto_bin"]: the position of
\* the next auto-binned covariate at or after position i, 0 if there is none.
NextAuto(s, i) ==
  LET auto == { j \in i..Len(s.col_names) : s.columns[s.col_names[j]].auto_bin }
  IN IF auto = {} THEN 0 ELSE CHOOSE j \in auto : \A k \in auto : j <= k

\* The bin count with which the loop starts tuning the covariate at position
\* i of col_names (0 when the loop is over).
EntryCount(s, i) == IF i = 0 THEN 0 ELSE get_n_bins(s, s.col_names[i])

\* ------------------------------------------------------------------ actions

Init ==
  /\ self = InitSelf
  /\ oracle = <<>>
  /\ pc = "idle"
  /\ idx = 0
  /\ entry = 0
  /\ first = None
  /\ rng = 0
  /\ args = None
  /\ floor = None
  /\ op = "init"
  /\ err = "none"
  /\ trace = <<>>

\* The locals of the last fit_and_sample call (kept for inspection until
\* the next operation starts) are dropped.
NoCall ==
  /\ oracle' = <<>>
  /\ pc' = "idle"
  /\ idx' = 0
  /\ entry' = 0
  /\ first' = None
  /\ floor' = None
  /\ trace' = <<>>
  /\ UNCHANGED <<rng, args>>

add_column ==
  /\ pc = "idle"
  /\ \E name \in Names, n_bins \in NBinsArgs, require_equivalence \in BOOLEAN :
       self' = AddColumn(self, name, n_bins, require_equivalence)
  /\ op' = "add_column"
  /\ err' = "none"
  /\ NoCall

fit ==
  /\ pc = "idle"
  /\ \E has_columns \in BOOLEAN :
       /\ self' = Fit(self, has_columns).s
       /\ err' = Fit(self, has_columns).err
  /\ op' = "fit"
  /\ NoCall

sample ==
  /\ pc = "idle"
  /\ \E has_columns \in BOOLEAN, sample_error \in BOOLEAN :
       /\ self' = Sample(self, has_columns, [ sample_error |-> sample_error ]).s
       /\ err' = Sample(self, has_columns, [ sample_error |-> sample_error ]).err
  /\ op' = "sample"
  /\ NoCall

\* fit_and_sample is called with the floor min_ratio: it raises when no column
\* is registered, and otherwise enters the loop at the first auto-binned
\* covariate.
CallEnters(min_ratio) ==
  /\ IF Len(self.col_names) = 0
     THEN /\ err' = "ValueError: You must add at least one column before fitting."
          /\ pc' = "idle"
          /\ idx' = 0
          /\ entry' = 0
          /\ floor' = None
     ELSE /\ err' = "none"
          /\ floor' = min_ratio
          /\ idx' = NextAuto(self, 1)
          /\ entry' = EntryCount(self, NextAuto(self, 1))
          /\ pc' = IF NextAuto(self, 1) = 0 THEN "final" ELSE "loop"
  /\ trace' = <<>>
  /\ op' = "fit_and_sample"
  /\ UNCHANGED <<self, rng, args>>

\* One pass of the while loop on the covariate at idx, the collaborators
\* answering o for the bin counts it fits.
LoopIteration(o) ==
  /\ Answers(self, NBins(self), o)
  /\ LET r == TuneIteration(self, self.col_names[idx], floor, o)
         next == NextAuto(r.s, idx + 1)
     IN /\ self' = r.s
        /\ err' = r.err
        /\ trace' = r.trace
        /\ pc' = IF r.err # "none" THEN "idle"
                 ELSE IF ~r.completed THEN "loop"
                 ELSE IF next = 0 THEN "final" ELSE "loop"
        /\ idx' = IF r.err = "none" /\ r.completed THEN next ELSE idx
        /\ entry' = IF r.err = "none" /\ r.completed THEN EntryCount(r.s, next)
                    ELSE entry
  /\ op' = "fit_and_sample"
  /\ UNCHANGED <<floor, rng, args>>

\* The final fit and sample; on success the sample is returned.
FinalStep(o) ==
  /\ Answers(self, NBins(self), o)
  /\ self' = FinalFitSample(self, o).s
  /\ err' = FinalFitSample(self, o).err
  /\ pc' = "idle"
  /\ op' = "fit_and_sample"
  /\ UNCHANGED <<idx, entry, floor, trace, rng, args>>

\* The collaborators answer only when fit reached them.
Learnt(o) == IF Fit(self, TRUE).err = "none" THEN Learn(NBins(self), o) ELSE oracle

fit_and_sample_call ==
  /\ pc = "idle"
  /\ \E min_ratio \in RatioFloors : CallEnters(min_ratio)
  /\ oracle' = <<>>
  /\ first' = None

fit_and_sample_iteration ==
  /\ pc = "loop"
  /\ \E o \in Outcomes(self) : LoopIteration(o) /\ oracle' = Learnt(o)
  /\ UNCHANGED first

fit_and_sample_final ==
  /\ pc = "final"
  /\ \E o \in Outcomes(self) : FinalStep(o) /\ oracle' = Learnt(o)
  /\ UNCHANGED first

Next ==
  \/ add_column
  \/ fit
  \/ sample
  \/ fit_and_sample_call
  \/ fit_and_sample_iteration
  \/ fit_and_sample_final

Spec == Init /\ [][Next]_vars


\* ---------------------------------- re-running fit_and_sample on the same tables

\* Every fit_and_sample call below is given the same tables, n_samples_approx,
\* seed and relax flag, so the collaborators' answers are kept from call to
\* call: what they answered for a bin-count vector they answer again.
Remember(v, o) == [ u \in DOMAIN oracle \cup {v} |-> IF u = v THEN o ELSE oracle[u] ]

Remembered(o) == IF Fit(self, TRUE).err = "none" THEN Remember(NBins(self), o) ELSE oracle

\* The first call that returns normally is the reference call: first keeps
\* the bin counts it settled on and its floor.
FirstAfter ==
  IF first = None /\ pc' = "idle" /\ err' = "none"
  THEN Some([ n_bins |-> NBins(self'), floor |-> floor, again |-> FALSE ])
  ELSE first

\* Covariates are registered before the first call.
rerun_add_column ==
  /\ op \in {"init", "add_column"}
  /\ add_column

\* A call; the one that follows the reference call repeats its arguments and
\* is the last one.
rerun_call ==
  /\ pc = "idle"
  /\ IF first = None THEN TRUE ELSE ~first[1].again
  /\ \E min_ratio \in RatioFloors :
       /\ IF first = None THEN TRUE ELSE min_ratio = first[1].floor
       /\ CallEnters(min_ratio)
  /\ first' = IF first = None THEN None ELSE Some([ first[1] EXCEPT !.again = TRUE ])
  /\ UNCHANGED oracle

rerun_iteration ==
  /\ pc = "loop"
  /\ \E o \in Outcomes(self) : LoopIteration(o) /\ oracle' = Remembered(o)
  /\ first' = FirstAfter

rerun_final ==
  /\ pc = "final"
  /\ \E o \in Outcomes(self) : FinalStep(o) /\ oracle' = Remembered(o)
  /\ first' = FirstAfter

NextRerun ==
  \/ rerun_add_column
  \/ rerun_call
  \/ rerun_iteration
  \/ rerun_final

SpecRerun == Init /\ [][NextRerun]_vars



\* ------------------------------------------- rows, outliers and the generator

\* fit and sample on tables of rows: _chop_outliers, _perturb and what they
\* leave in data_train, data_test and data_sample. A table is a sequence of
\* rows [id, v], id being the row's index label and v its covariate values.
\* Perturbed values are kept in steps of the perturbation: Scale steps make
\* one unit of a covariate (the factor 1e-6 of _perturb).
MaxRows == 2
Scale == 4
Values == {-1, 0, 1}
BoundArgs == {None, Some(0)}
Seeds == {1, 2}
RowNames == {"a"}

Tables(cols) ==
  { [ i \in 1..MaxRows |-> [ id |-> i, v |-> f[i] ] ] : f \in [ 1..MaxRows -> [ cols -> Values ] ] }

\* In the row-level study the covariate is registered and the table is chosen
\* at the start; fit and sample are then called on that table with any seed,
\* and sample always with the same n_samples_approx and relax flag.

InitRowsSelf ==
  [ columns |-> <<>>, col_names |-> <<>>, binning |-> None, df_train |-> None,
    trained |-> FALSE, sampled |-> FALSE,
    data_train |-> None, data_test |-> None, data_sample |-> None ]

\* add_column with its outlier bounds (bin counts play no part here).
AddBoundedColumn(s, name, min_value_allowed, max_value_allowed) ==
  LET col == [ name |-> name,
               min_value_allowed |-> min_value_allowed,
               max_value_allowed |-> max_value_allowed ]
      cols == [ c \in (DOMAIN s.columns) \cup {name} |->
                  IF c = name THEN col ELSE s.columns[c] ]
  IN [ s EXCEPT !.columns = cols,
                !.col_names = IF InSeq(name, s.col_names) THEN s.col_names
                              ELSE Append(s.col_names, name),
                !.binning = None,
                !.trained = FALSE ]

\* _chop_outliers as it would be with strict comparisons.
ChopOutliers_Strict(s, df) ==
  LET Keep(r) ==
        \A c \in DOMAIN s.columns :
          /\ IF s.columns[c].min_value_allowed = None THEN TRUE
             ELSE r.v[s.columns[c].name] > s.columns[c].min_value_allowed[1]
          /\ IF s.columns[c].max_value_allowed = None THEN TRUE
             ELSE r.v[s.columns[c].name] < s.columns[c].max_value_allowed[1]
  IN SelectSeq(df, Keep)

\* _chop_outliers: for every column, rows below a given minimum or above a
\* given maximum are dropped; rows on a bound stay.
ChopOutliers(s, df) ==
  LET Keep(r) ==
        \A c \in DOMAIN s.columns :
          /\ IF s.columns[c].min_value_allowed = None THEN TRUE
             ELSE r.v[s.columns[c].name] >= s.columns[c].min_value_allowed[1]
          /\ IF s.columns[c].max_value_allowed = None THEN TRUE
             ELSE r.v[s.columns[c].name] <= s.columns[c].max_value_allowed[1]
  IN SelectSeq(df, Keep)

\* numpy's global generator, as a small congruential generator: seeding sets
\* its state, every number drawn advances it. Level is the number drawn in
\* state x: below (0), equal to (1) or above (2) one half.
Modulus == 5
Seeded(random_seed) == random_seed % Modulus
Advance(x) == (2 * x + 1) % Modulus
Level(x) == x % 3

RECURSIVE Drawn(_, _)
Drawn(x, n) == IF n = 0 THEN x ELSE Drawn(Advance(x), n - 1)

PositionOf(name, seq) == CHOOSE i \in 1..Len(seq) : seq[i] = name

\* max - min of a column (0 for an empty table, which has nothing to perturb).
RangeOf(df, c) ==
  LET vs == { df[i].v[c] : i \in 1..Len(df) }
  IN IF vs = {} THEN 0
     ELSE (CHOOSE x \in vs : \A y \in vs : x >= y) - (CHOOSE x \in vs : \A y \in vs : x <= y)

\* The perturbation with the generator in state x0 when the first number is
\* drawn: column by column, one number per row, each value moved by
\* (number - 0.5) * range * 1e-6.
PerturbFrom(s, df_orig, x0) ==
  LET n == Len(df_orig)
      Noise(c, k) ==
        IF RangeOf(df_orig, c) = 0 THEN 0
        ELSE Level(Drawn(x0, (PositionOf(c, s.col_names) - 1) * n + k)) - 1
  IN [ df |-> [ k \in 1..n |->
                  [ id |-> df_orig[k].id,
                    v |-> [ c \in DOMAIN df_orig[k].v |-> df_orig[k].v[c] * Scale + Noise(c, k) ] ] ],
       rng |-> Drawn(x0, Len(s.col_names) * n) ]

\* _perturb as it would be without np.random.seed(random_seed).
Perturb_NoSeed(s, df_orig, random_seed, g) == PerturbFrom(s, df_orig, g)

\* _perturb, called with the global generator in state g: it is seeded first.
Perturb(s, df_orig, random_seed, g) == PerturbFrom(s, df_orig, Seeded(random_seed))

\* fit's _outlier_value flag, computed on the perturbed value.
OutlierValue(s, r) ==
  \E c \in DOMAIN s.columns :
    \/ IF s.columns[c].min_value_allowed = None THEN FALSE
       ELSE r.v[s.columns[c].name] < s.columns[c].min_value_allowed[1] * Scale
    \/ IF s.columns[c].max_value_allowed = None THEN FALSE
       ELSE r.v[s.columns[c].name] > s.columns[c].max_value_allowed[1] * Scale

\* fit on the table df_train; bin_error says whether the binner raises.
FitRows(s, df_train, random_seed, g, bin_error) ==
  LET chk == CheckColumnsPresent(s, TRUE)
      pert == Perturb(s, ChopOutliers(s, df_train), random_seed, g)
      flagged == [ k \in 1..Len(pert.df) |->
                     [ id |-> pert.df[k].id, v |-> pert.df[k].v,
                       outlier_value |-> OutlierValue(s, pert.df[k]) ] ]
      s1 == [ s EXCEPT !.df_train = Some(flagged), !.binning = Some("Binning") ]
  IN IF chk # "none" THEN [ s |-> s, rng |-> g, err |-> chk ]
     ELSE IF bin_error THEN [ s |-> s1, rng |-> pert.rng, err |-> "BinningError" ]
     ELSE [ s |-> [ s1 EXCEPT !.data_train = Some(flagged), !.trained = TRUE ],
            rng |-> pert.rng, err |-> "none" ]

\* What sample_bins may answer on the chopped test table df: an error, or the
\* index labels of the rows it drew.
DrawOutcomes(df) ==
  { [ sample_error |-> TRUE, drawn |-> {} ] }
  \cup { [ sample_error |-> FALSE, drawn |-> d ] : d \in SUBSET { df[k].id : k \in 1..Len(df) } }

\* sample on the table df_test, sample_bins answering o.
SampleRows(s, df_test, random_seed, g, o) ==
  LET chk == CheckColumnsPresent(s, TRUE)
      pert == Perturb(s, ChopOutliers(s, df_test), random_seed, g)
      Picked(r) == r.id \in o.drawn
      s1 == [ s EXCEPT !.data_test = Some(pert.df) ]
  IN IF ~s.trained THEN [ s |-> s, rng |-> g, err |-> "NameError" ]
     ELSE IF chk # "none" THEN [ s |-> s, rng |-> g, err |-> chk ]
     ELSE IF o.sample_error THEN [ s |-> s1, rng |-> pert.rng, err |-> "ModelSamplingException" ]
     ELSE [ s |-> [ s1 EXCEPT !.data_sample = Some(SelectSeq(pert.df, Picked)),
                              !.sampled = TRUE ],
            rng |-> pert.rng, err |-> "none" ]

\* sample_bins draws with its own generator seeded by random_seed: what it
\* answers is a function of what it is given. oracle keeps its last answer.
DrawKey(s, df_test, random_seed, g) ==
  [ data_train |-> s.data_train,
    data_test |-> Perturb(s, ChopOutliers(s, df_test), random_seed, g).df,
    random_seed |-> random_seed ]

DrawAnswers(key, o) ==
  IF oracle # <<>> /\ oracle.key = key THEN o = oracle.answer ELSE TRUE


\* args: the table, the seed of the latest sample call since the last fit
\* (None before it), and whether that call repeated the seed of the sample
\* call before it with the global generator in another state than that call
\* had left it in (again).
RowsIdle ==
  /\ oracle = <<>>
  /\ pc = "idle"
  /\ idx = 0
  /\ entry = 0
  /\ first = None
  /\ floor = None
  /\ err = "none"
  /\ trace = <<>>

\* One covariate has been registered, with or without bounds.
InitRows ==
  /\ \E name \in RowNames, min_value_allowed \in BoundArgs, max_value_allowed \in BoundArgs :
       /\ self = AddBoundedColumn(InitRowsSelf, name, min_value_allowed, max_value_allowed)
       /\ \E table \in Tables({name}) :
            args = [ table |-> table, last |-> None, again |-> FALSE ]
  /\ rng = 0
  /\ op = "add_column"
  /\ RowsIdle

\* The covariate has been registered and fit has succeeded on the table.
InitSeeded ==
  /\ \E name \in RowNames, min_value_allowed \in BoundArgs, max_value_allowed \in BoundArgs :
       \E table \in Tables({name}), random_seed \in Seeds :
         LET r == FitRows(AddBoundedColumn(InitRowsSelf, name, min_value_allowed, max_value_allowed),
                          table, random_seed, 0, FALSE)
         IN /\ self = r.s
            /\ rng = r.rng
            /\ args = [ table |-> table, last |-> None, again |-> FALSE ]
  /\ op = "fit"
  /\ RowsIdle

rows_fit ==
  /\ \E random_seed \in Seeds, bin_error \in BOOLEAN :
       LET r == FitRows(self, args.table, random_seed, rng, bin_error)
       IN /\ self' = r.s
          /\ rng' = r.rng
          /\ err' = r.err
  /\ op' = "fit"
  /\ oracle' = <<>>
  /\ args' = [ args EXCEPT !.last = None, !.again = FALSE ]
  /\ UNCHANGED <<pc, idx, entry, first, floor, trace>>

rows_sample ==
  /\ \E random_seed \in Seeds :
       \E o \in DrawOutcomes(ChopOutliers(self, args.table)) :
         LET r == SampleRows(self, args.table, random_seed, rng, o)
             key == DrawKey(self, args.table, random_seed, rng)
         IN /\ DrawAnswers(key, o)
            /\ self' = r.s
            /\ rng' = r.rng
            /\ err' = r.err
            /\ oracle' = IF r.err \in {"none", "ModelSamplingException"}
                         THEN [ key |-> key, answer |-> o ] ELSE oracle
            /\ args' = [ args EXCEPT
                           !.last = Some(random_seed),
                           !.again = op = "sample" /\ args.last = Some(random_seed)
                                       /\ rng # r.rng ]
  /\ op' = "sample"
  /\ UNCHANGED <<pc, idx, entry, first, floor, trace>>

\* Anyone draws a number from numpy's global generator.
random_draw ==
  /\ rng' = Advance(rng)
  /\ UNCHANGED <<self, oracle, args, pc, idx, entry, first, floor, op, err, trace>>

NextRows ==
  \/ rows_fit
  \/ rows_sample

SpecRows == InitRows /\ [][NextRows]_vars

NextSeeded ==
  \/ rows_sample
  \/ random_draw

SpecSeeded == InitSeeded /\ [][NextSeeded]_vars

\* ------------------------------------------------- reading the running call

\* The covariate the loop is tuning (pc = "loop").
Tuned == self.col_names[idx]

\* The step is a loop iteration whose fit and sample raised nothing, so the
\* stopping conditions were evaluated; Answer is what the collaborators
\* answered for the bin counts the iteration fitted.
Judged ==
  /\ pc = "loop"
  /\ NBins(self) \in DOMAIN oracle'
  /\ ~oracle'[NBins(self)].sample_error

Answer == oracle'[NBins(self)]

FloorViolated == Truthy(floor) /\ Answer.ratio < floor[1]

\* After the step the covariate is CONVERGED (the loop moved on) / still TUNING.
NowConverged == err' = "none" /\ (pc' = "final" \/ (pc' = "loop" /\ idx' > idx))

StillTuning == err' = "none" /\ pc' = "loop" /\ idx' = idx

BinsMovedBy(d) == get_n_bins(self', Tuned) = get_n_bins(self, Tuned) + d

\* fit_and_sample has just returned its sample / has just raised.
ReturnedNormally == op = "fit_and_sample" /\ pc = "idle" /\ err = "none"

Raised == op = "fit_and_sample" /\ pc = "idle" /\ err # "none"

\* ------------------------------------------------------------------- claims

\* C1: whenever fit_and_sample returns normally (having tuned at least one
\* auto-binned covariate), the returned sample passes the equivalence
\* predicate for every auto-binned covariate that requires equivalence, and
\* its sampled/train ratio is not below a configured floor.
C1_FinalSampleMeetsConstraints ==
  (ReturnedNormally /\ \E c \in DOMAIN self.columns : self.columns[c].auto_bin) =>
    /\ \A c \in RequiresEquivalence(self) :
         equivalence_passed(oracle[NBins(self)], c)
    /\ Truthy(floor) => ~violates_ratio(oracle[NBins(self)], floor)

\* C2: sample on an orchestrator whose trained flag is false fails with the
\* ValueError 'No model found; please run fit()' and leaves data_test,
\* data_sample and sampled unchanged.
C2_SampleUntrainedValueError ==
  [][ (op' = "sample" /\ ~self.trained) =>
        /\ err' = "ValueError: No model found; please run fit()"
        /\ self'.data_test = self.data_test
        /\ self'.data_sample = self.data_sample
        /\ self'.sampled = self.sampled ]_vars

\* C3: after any sequence of calls, data_train, data_test and data_sample,
\* when present, were all built with the Binning of the most recent fit.
C3_NeverStale ==
  \A d \in { self.data_train, self.data_test, self.data_sample } :
    d # None => d[1].of_last_fit

\* C4: in every reachable state each registered covariate's n_bins is >= 1.
C4_NBinsAtLeastOne ==
  \A c \in DOMAIN self.columns : self.columns[c].n_bins >= 1

\* C5: for a covariate that requires equivalence, every iteration whose sample
\* is non-empty and whose equivalence predicate fails increments the bin count
\* by one and stays TUNING, whatever the sampled/train ratio.
C5_EquivalenceFailsIncrements ==
  [][ ( /\ Judged
        /\ self.columns[Tuned].auto_bin_require_equivalence
        /\ ~SampleEmpty(Answer)
        /\ ~equivalence_passed(Answer, Tuned) )
      => (BinsMovedBy(1) /\ StillTuning) ]_vars

\* C6: for a covariate that requires equivalence, an iteration whose
\* equivalence predicate passes marks it CONVERGED: with the bin count
\* decremented by one if the configured ratio floor is violated, and left at
\* its current value otherwise.
C6_EquivalencePassesConverges ==
  [][ ( /\ Judged
        /\ self.columns[Tuned].auto_bin_require_equivalence
        /\ ~SampleEmpty(Answer)
        /\ equivalence_passed(Answer, Tuned) )
      => /\ NowConverged
         /\ IF FloorViolated THEN BinsMovedBy(-1) ELSE BinsMovedBy(0) ]_vars

\* The loop has left a covariate that requires equivalence after an iteration
\* in which equivalence passed and the ratio floor was violated: the count is
\* one below the one that iteration fitted.
C6_Witness ==
  /\ op = "fit_and_sample" /\ pc \in {"loop", "final"} /\ err = "none"
  /\ trace = <<"empty", "equivalence", "ratio">>
  /\ \E c \in RequiresEquivalence(self), v \in DOMAIN oracle :
       /\ v[c] = get_n_bins(self, c) + 1
       /\ ~oracle[v].sample_error
       /\ ~SampleEmpty(oracle[v])
       /\ equivalence_passed(oracle[v], c)
       /\ violates_ratio(oracle[v], floor)

\* C7: for a covariate that does not require equivalence the equivalence
\* predicate (and the empty-sample check) is never consulted: an iteration
\* whose ratio violates the configured floor decrements the bin count by one
\* and marks it CONVERGED; any other iteration increments it and stays TUNING.
C7_NoEquivalenceBranch ==
  [][ ( /\ Judged
        /\ ~self.columns[Tuned].auto_bin_require_equivalence )
      => /\ \A i \in 1..Len(trace') : trace'[i] = "ratio"
         /\ IF FloorViolated THEN BinsMovedBy(-1) /\ NowConverged
            ELSE BinsMovedBy(1) /\ StillTuning ]_vars

\* A covariate that does not require equivalence was incremented by an
\* iteration that consulted only the ratio, and is still being tuned.
C7_Witness ==
  /\ pc = "loop" /\ err = "none"
  /\ ~self.columns[Tuned].auto_bin_require_equivalence
  /\ trace = <<"ratio">>
  /\ \E v \in DOMAIN oracle :
       /\ v[Tuned] = get_n_bins(self, Tuned) - 1
       /\ ~oracle[v].sample_error
       /\ ~violates_ratio(oracle[v], floor)

\* C8: for a covariate that requires equivalence, an iteration whose sample is
\* empty raises the ValueError 'Too many bin divisions before finding
\* equivalence' before the equivalence predicate or the ratio floor is
\* consulted and before any bin count is updated.
C8_EmptySampleRaisesFirst ==
  [][ ( /\ Judged
        /\ self.columns[Tuned].auto_bin_require_equivalence
        /\ SampleEmpty(Answer) )
      => /\ err' = "ValueError: Too many bin divisions before finding equivalence"
         /\ pc' = "idle"
         /\ trace' = <<"empty">>
         /\ self'.columns = self.columns ]_vars

\* The call has raised on an empty sample, having consulted nothing else.
C8_Witness ==
  /\ Raised
  /\ err = "ValueError: Too many bin divisions before finding equivalence"
  /\ trace = <<"empty">>
  /\ SampleEmpty(oracle[NBins(self)])

\* C9: when a step of fit_and_sample raises (in fit, in sample or on the empty
\* sample), the call ends with that error and every covariate's bin count is
\* the one the failing step started with: nothing is reset.
C9_ErrorKeepsBinCounts ==
  [][ (pc \in {"loop", "final"} /\ err' # "none")
      => /\ pc' = "idle"
         /\ self'.columns = self.columns ]_vars

\* The call has raised after tuning moved a bin count: the collaborators had
\* answered for other bin counts than the ones the object now holds.
C9_Witness ==
  /\ Raised
  /\ \E v \in DOMAIN oracle : v # NBins(self)
  /\ \E c \in DOMAIN self.columns :
       self.columns[c].auto_bin /\ self.columns[c].n_bins > 1

\* C10: during fit_and_sample covariates are tuned one at a time in
\* registration order; a step changes no bin count but that of the covariate
\* being tuned, so fixed covariates never change and converged ones keep
\* their settled count for the rest of the call.
C10_OneCovariateAtATime ==
  [][ (op' = "fit_and_sample")
      => /\ self'.col_names = self.col_names
         /\ \A c \in DOMAIN self.columns :
              self'.columns[c] # self.columns[c] =>
                /\ pc = "loop" /\ c = Tuned
                /\ self.columns[c].auto_bin
                /\ self'.columns[c] = [ self.columns[c] EXCEPT !.n_bins = self'.columns[c].n_bins ]
         /\ (pc = "loop" /\ pc' = "loop") => idx' >= idx ]_vars

\* The second of two auto-binned covariates is being tuned and has moved,
\* while the first keeps the count it settled on.
C10_Witness ==
  /\ pc = "loop" /\ idx = 2
  /\ self.columns[self.col_names[1]].auto_bin
  /\ get_n_bins(self, self.col_names[1]) = 2
  /\ get_n_bins(self, Tuned) = 2

\* C11: fit on an orchestrator with no registered column fails with the
\* ValueError that _check_columns_present raises, and fit or sample failing on
\* a table that lacks a registered column fails with its ValueError; in each
\* case the orchestrator (columns, binning, df_train, data_train, data_test,
\* data_sample, trained, sampled) is left unchanged.
C11_CheckColumnsValueError ==
  [][ /\ (op' = "fit" /\ self.col_names = <<>>) =>
           /\ err' = "ValueError: No columns found in model"
           /\ self' = self
      /\ (op' \in {"fit", "sample"}
            /\ err' = "ValueError: data is missing required columns") =>
           self' = self ]_vars

\* C14: a successful sample labels the test data and the drawn sample with the
\* Binning of the most recent fit and leaves columns, binning, df_train,
\* data_train and trained unchanged: only data_test, data_sample and sampled
\* change.
C14_SampleKeepsModel ==
  [][ (op' = "sample" /\ err' = "none") =>
        /\ self'.data_test = Some([ of_last_fit |-> TRUE ])
        /\ self'.data_sample = Some([ of_last_fit |-> TRUE ])
        /\ self'.sampled
        /\ self' = [ self EXCEPT !.data_test = self'.data_test,
                                 !.data_sample = self'.data_sample,
                                 !.sampled = self'.sampled ] ]_vars

\* A sample has just succeeded on a fitted orchestrator: the training data and
\* the drawn sample both carry the Binning of the last fit.
C14_Witness ==
  /\ op = "sample" /\ err = "none"
  /\ self.trained /\ self.sampled
  /\ self.binning # None /\ DOMAIN self.binning[1].edges = DOMAIN self.columns
  /\ self.data_train = Some([ of_last_fit |-> TRUE ])
  /\ self.data_sample = Some([ of_last_fit |-> TRUE ])

\* C15: over any sequence of calls, fit calls that fail partway included,
\* whenever trained is true, binning holds edges for every registered
\* covariate (computed by a fit that ran to completion) and data_train was
\* built from that same binning; so sample never succeeds with a half-built
\* binning.
C15_TrainedMeansCompleteBinning ==
  self.trained =>
    /\ self.binning # None
    /\ DOMAIN self.binning[1].edges = DOMAIN self.columns
    /\ self.data_train # None
    /\ self.data_train[1].of_last_fit

\* C16: when the tuning of a covariate ends through the ratio-floor fallback
\* (its count decremented by one), the count it settles on is one at which an
\* earlier iteration of the same call ran fit and sample for that covariate
\* without violating the ratio floor.
C16_FallbackToVisitedCount ==
  [][ (Judged /\ NowConverged /\ BinsMovedBy(-1)) =>
        /\ NBins(self') \in DOMAIN oracle
        /\ ~oracle[NBins(self')].sample_error
        /\ ~violates_ratio(oracle[NBins(self')], floor) ]_vars

\* C18: there is no iteration cap: while an auto-binned covariate that does
\* not require equivalence is tuned with no ratio floor (0 or None), no
\* iteration marks it CONVERGED and every iteration that raises nothing
\* increments its bin count by one; so fit_and_sample never returns normally
\* with such a covariate and ends only through an error of fit or sample.
C18_Unbounded ==
  pc = "loop" /\ ~self.columns[Tuned].auto_bin_require_equivalence /\ ~Truthy(floor)

C18_NoCapWithoutFloor ==
  [][ /\ C18_Unbounded =>
           /\ ~NowConverged
           /\ pc' # "final"
           /\ err' = "none" => (BinsMovedBy(1) /\ StillTuning)
           /\ err' # "none" => (pc' = "idle" /\ err' \in {"BinningError", "ModelSamplingException"})
      /\ (op' = "fit_and_sample" /\ pc' = "idle" /\ err' = "none" /\ ~Truthy(floor)) =>
           \A c \in DOMAIN self.columns :
             self.columns[c].auto_bin => self.columns[c].auto_bin_require_equivalence ]_vars

\* The call has raised in the binner after the loop incremented such a
\* covariate past every bin count the train table can serve.
C18_Witness ==
  /\ Raised /\ err = "BinningError" /\ ~Truthy(floor)
  /\ \E c \in DOMAIN self.columns :
       /\ self.columns[c].auto_bin
       /\ ~self.columns[c].auto_bin_require_equivalence
       /\ get_n_bins(self, c) = DistinctValues + 1

\* C17: within the tuning of one covariate every iteration changes its bin
\* count by at most one: an iteration that does not end the loop increments it
\* by exactly one, a decrement by one happens only in the iteration that ends
\* the loop (hence at most once), and the count never falls below the count at
\* loop entry before that; so the settled count is at least the entry count
\* minus one.
C17_StepsOfOne ==
  [][ (pc = "loop" /\ op' = "fit_and_sample") =>
        /\ BinsMovedBy(-1) \/ BinsMovedBy(0) \/ BinsMovedBy(1)
        /\ StillTuning => BinsMovedBy(1)
        /\ BinsMovedBy(-1) => NowConverged
        /\ get_n_bins(self, Tuned) >= entry
        /\ get_n_bins(self', Tuned) >= entry - 1 ]_vars

\* The loop is over after a covariate fell back by one on the ratio floor to a
\* count of two or more: the collaborators answered a violated floor for the
\* count one above the settled one.
C17_Witness ==
  /\ pc = "final" /\ err = "none" /\ Truthy(floor)
  /\ \E c \in DOMAIN self.columns, v \in DOMAIN oracle :
       /\ self.columns[c].auto_bin
       /\ get_n_bins(self, c) >= 2
       /\ v = [ NBins(self) EXCEPT ![c] = get_n_bins(self, c) + 1 ]
       /\ ~oracle[v].sample_error
       /\ violates_ratio(oracle[v], floor)

\* C19: re-running is stable: with collaborators that answer by the bin-count
\* vector alone, a second fit_and_sample call with the same tables and
\* arguments, made after a first call that returned normally, settles on the
\* same bin count for every covariate, also with two or more auto-binned
\* covariates.
C19_RerunSettlesSame ==
  [][ ( /\ first # None
        /\ first[1].again
        /\ pc # "idle" /\ pc' = "idle" /\ err' = "none" )
      => NBins(self') = first[1].n_bins ]_vars

\* Reading the row-level state: the index labels in a BinnedData, and the
\* rows of the table whose original values lie within the inclusive bounds.
RowIds(data) ==
  IF data = None THEN {} ELSE { data[1][k].id : k \in 1..Len(data[1]) }

WithinAllowed(s, r) ==
  \A c \in DOMAIN s.columns :
    /\ IF s.columns[c].min_value_allowed = None THEN TRUE
       ELSE r.v[c] >= s.columns[c].min_value_allowed[1]
    /\ IF s.columns[c].max_value_allowed = None THEN TRUE
       ELSE r.v[c] <= s.columns[c].max_value_allowed[1]

KeptIds ==
  { args.table[k].id : k \in { j \in 1..Len(args.table) : WithinAllowed(self, args.table[j]) } }

\* C12: outlier exclusion: after fit and sample no row whose original value
\* lies outside the inclusive range [min_value_allowed, max_value_allowed] of
\* a covariate is present in data_train, in data_test or in the returned
\* sample, and the rows exactly on a bound (like every row within the range)
\* are kept in data_train and data_test.
C12_OutliersExcluded ==
  /\ self.data_train # None => RowIds(self.data_train) = KeptIds
  /\ self.data_test # None => RowIds(self.data_test) = KeptIds
  /\ self.data_sample # None => RowIds(self.data_sample) \subseteq KeptIds

\* fit and sample have succeeded on a table with a row outside the range and
\* a row exactly on a bound; the latter is in data_train, in data_test and in
\* the drawn sample.
C12_Witness ==
  /\ op = "sample" /\ err = "none"
  /\ \E j \in 1..Len(args.table) : ~WithinAllowed(self, args.table[j])
  /\ \E c \in DOMAIN self.columns, k \in 1..Len(args.table) :
       /\ Some(args.table[k].v[c]) \in
            { self.columns[c].min_value_allowed, self.columns[c].max_value_allowed }
       /\ args.table[k].id \in RowIds(self.data_train)
       /\ args.table[k].id \in RowIds(self.data_test)
       /\ args.table[k].id \in RowIds(self.data_sample)

\* C13: determinism: from the same fitted orchestrator, two sample calls with
\* the same test table, n_samples_approx, random_seed and relax flag yield the
\* same perturbed test data and the same drawn rows, whatever was drawn from
\* the global generator between them (each call seeds it anew).
C13_SampleDeterministic ==
  [][ (op = "sample" /\ err = "none" /\ op' = "sample" /\ args'.last = args.last)
      => /\ err' = "none"
         /\ self'.data_test = self.data_test
         /\ self'.data_sample = self.data_sample ]_vars

\* A sample call has repeated the seed of the call before it, with the global
\* generator moved on in between; the test data it stored carry a
\* perturbation and it drew at least one row.
C13_Witness ==
  /\ op = "sample" /\ err = "none" /\ args.again
  /\ \E k \in 1..Len(self.data_test[1]), c \in DOMAIN self.columns :
       self.data_test[1][k].v[c] % Scale # 0
  /\ self.data_sample[1] # <<>>

====
